---- MODULE Spec2Model ----
(***************************************************************************)
(* scripts/op_sync_env_from_1password.py: one run of main() after another. *)
(*                                                                         *)
(* A text is a sequence of tokens.  A token stands for a run of characters *)
(* that the script never looks inside ("A" is a variable name, "x" a       *)
(* value, HeaderManaged the section header the script writes), or for one  *)
(* character the script does look for: "=", "SP" (a blank), "NL" (a line   *)
(* break), "Q" (a double quote).  A file is the text it holds.             *)
(***************************************************************************)
EXTENDS Integers, Sequences, FiniteSets, TLC

VARIABLES
    pc,               \* position of main(): start, config, session, backup, sync, resolve, done
    runs,             \* number of runs that have come to the backup step
    target,           \* the target .env file: NoFile, or File(its text)
    backups,          \* .env.backups/: timestamp -> text
    creds,            \* .creds/: file name -> text
    last_backup_ts,   \* the clock second of the latest backup (0: none yet)
    config,           \* the merged configuration documents: {} until first read, then {c}
    table,            \* the env_var_mappings table behind the MCP server: {} until first read, then {t}
    vault,            \* what `op read` answers, per reference read so far
    orig,             \* the target file as it was when the run started
    synced,           \* the target file is as a run of sync_env left it
    orig_synced,      \* orig is as a run of sync_env left it
    exclusions,       \* main(): get_exclusions(config)
    inclusions,       \* main(): get_inclusions(config)
    backup_path,      \* main(): result of backup_env_file (a timestamp; 0 for None)
    env_to_op_ref,    \* sync_env(): ordered dict, a sequence of <<key, reference>>
    todo,             \* sync_env(): the part of env_to_op_ref.items() the loop has not visited
    comment_lines,    \* sync_env(): from parse_env_file
    existing_vars,    \* sync_env(): from parse_env_file
    unmanaged_vars,   \* sync_env()
    resolved_vars,    \* sync_env()
    updated,          \* sync_env()
    skipped,          \* sync_env()
    new_lines,        \* sync_env(): the lines handed to write_text
    op_calls,         \* the references op_read was called with, in order
    printed,          \* what the run printed: a sequence of <<tag, argument>>
    written,          \* number of times this run wrote the target file
    touched,          \* the paths this run has created or written so far
    twins,            \* what the runs print that differ from this one only in the secret values
                      \* `op read` returns: their output and updated list since sync_env parsed the file
    exit_code         \* main()'s return value (-1 while main has not returned)

vars == <<pc, runs, target, backups, creds, last_backup_ts, config, table, vault, orig,
          synced, orig_synced, exclusions, inclusions, backup_path, env_to_op_ref, todo, comment_lines,
          existing_vars, unmanaged_vars, resolved_vars, updated, skipped, new_lines,
          op_calls, printed, written, touched, twins, exit_code>>

\* a path at which no file exists
NoFile == [exists |-> FALSE, text |-> <<>>]

File(text) == [exists |-> TRUE, text |-> text]

\* the inclusion list when the configuration names none (Python's None)
NoInclusions == [is_none |-> TRUE, names |-> {}]

\* a mapping table the MCP server cannot be asked for
Unreachable == [reachable |-> FALSE, records |-> <<>>]

Reachable(records) == [reachable |-> TRUE, records |-> records]

(***************************************************************************)
(* Texts                                                                   *)
(***************************************************************************)
Range(s) == {s[i] : i \in DOMAIN s}

Whitespace == {"SP", "NL"}

RECURSIVE LStrip(_)
LStrip(s) == IF s # <<>> /\ Head(s) \in Whitespace THEN LStrip(Tail(s)) ELSE s

RECURSIVE RStrip(_)
RStrip(s) ==
    IF s # <<>> /\ s[Len(s)] \in Whitespace THEN RStrip(SubSeq(s, 1, Len(s) - 1)) ELSE s

\* str.strip()
Strip(s) == RStrip(LStrip(s))

\* str.rstrip("\n")
RECURSIVE RStripNL(_)
RStripNL(s) ==
    IF s # <<>> /\ s[Len(s)] = "NL" THEN RStripNL(SubSeq(s, 1, Len(s) - 1)) ELSE s

\* index of the first occurrence of token c in s, 0 when there is none
RECURSIVE IndexFrom(_, _, _)
IndexFrom(s, c, i) ==
    IF i > Len(s) THEN 0 ELSE IF s[i] = c THEN i ELSE IndexFrom(s, c, i + 1)

IndexOf(s, c) == IndexFrom(s, c, 1)

\* str.splitlines(): a final line break opens no further line
RECURSIVE SplitLines(_)
SplitLines(text) ==
    IF text = <<>> THEN <<>>
    ELSE LET i == IndexOf(text, "NL")
         IN IF i = 0 THEN <<text>>
            ELSE <<SubSeq(text, 1, i - 1)>> \o SplitLines(SubSeq(text, i + 1, Len(text)))

\* "\n".join(lines)
RECURSIVE JoinLines(_)
JoinLines(lines) ==
    IF lines = <<>> THEN <<>>
    ELSE IF Len(lines) = 1 THEN lines[1]
    ELSE lines[1] \o <<"NL">> \o JoinLines(Tail(lines))

\* the string order of Python on the characters the tokens stand for
TokenOrder ==
    <<"NL", "SP", "Q", "# note", "# Variables managed by 1Password sync",
      "# Variables not managed by 1Password", " (preserved)", "=",
      "A", "B", "C", "s", "t", "x", "y">>

Rank(tok) == IF IndexOf(TokenOrder, tok) = 0 THEN Len(TokenOrder) + 1
             ELSE IndexOf(TokenOrder, tok)

RECURSIVE TextLess(_, _)
TextLess(a, b) ==
    IF b = <<>> THEN FALSE
    ELSE IF a = <<>> THEN TRUE
    ELSE IF Rank(Head(a)) # Rank(Head(b)) THEN Rank(Head(a)) < Rank(Head(b))
    ELSE TextLess(Tail(a), Tail(b))

\* Sorted with the largest key first
RECURSIVE Sorted_Descending(_)
Sorted_Descending(S) ==
    IF S = {} THEN <<>>
    ELSE LET m == CHOOSE x \in S : \A y \in S \ {x} : TextLess(y, x)
         IN <<m>> \o Sorted_Descending(S \ {m})

\* sorted(keys)
RECURSIVE Sorted(_)
Sorted(S) ==
    IF S = {} THEN <<>>
    ELSE LET m == CHOOSE x \in S : \A y \in S \ {x} : TextLess(x, y)
         IN <<m>> \o Sorted(S \ {m})

(***************************************************************************)
(* Dictionaries                                                            *)
(***************************************************************************)
EmptyDict == [k \in {} |-> <<>>]

DictPut(d, k, v) == [x \in DOMAIN d \cup {k} |-> IF x = k THEN v ELSE d[x]]

\* an insertion-ordered dict as a sequence of <<key, value>>
OdKeys(od) == {od[i][1] : i \in DOMAIN od}

OdGet(od, k) == od[CHOOSE i \in DOMAIN od : od[i][1] = k][2]

OdPut(od, k, v) ==
    IF k \in OdKeys(od)
    THEN [i \in DOMAIN od |-> IF od[i][1] = k THEN <<k, v>> ELSE od[i]]
    ELSE Append(od, <<k, v>>)

RECURSIVE OdFilter(_, _)
OdFilter(od, keep) ==
    IF od = <<>> THEN <<>>
    ELSE (IF Head(od)[1] \in keep THEN <<Head(od)>> ELSE <<>>) \o OdFilter(Tail(od), keep)

(***************************************************************************)
(* Bounds and the inputs the model draws from                              *)
(***************************************************************************)
MaxLines == 2      \* lines of the target file before the first run
MaxRecords == 2    \* records of the mapping table
MaxRuns == 2       \* runs of main() that come to the backup step

HeaderManaged == "# Variables managed by 1Password sync"
HeaderUnmanagedPrefix == "# Variables not managed by 1Password"
HeaderUnmanaged == <<HeaderUnmanagedPrefix, " (preserved)">>

KeyA == <<"A">>
KeyB == <<"B", "_CREDENTIALS">>
KeyC == <<"C">>

\* the lines a target file is made of before the first run, in file order
MasterLines ==
    << <<"# note">>,
       <<"A", "=", "Q", "x", "Q">>,
       <<"C", "SP", "=", "SP", "x", "SP">>,
       <<"C", "=", "y">> >>

RECURSIVE PickLines(_, _)
PickLines(S, i) ==
    IF i > Len(MasterLines) THEN <<>>
    ELSE (IF i \in S THEN <<MasterLines[i]>> ELSE <<>>) \o PickLines(S, i + 1)

InitFiles ==
    {NoFile} \cup
    { LET lines == PickLines(S, 1)
      IN IF lines = <<>> THEN File(<<>>) ELSE File(JoinLines(lines) \o <<"NL">>)
      : S \in {T \in SUBSET DOMAIN MasterLines : Cardinality(T) <= MaxLines} }

RefA == <<"op://", "a">>
RefB == <<"op://", "b">>
RefDev == <<"op://", "d">>
RefProd == <<"op://", "p">>
RefPlaceholder == <<"PLACEHOLDER_", "a">>

Rec(k, r, based, ekey) ==
    [env_var |-> k, op_reference |-> r, environment_based |-> based, environment_key |-> ekey]

RecordSet ==
    { Rec(KeyA, RefA, FALSE, ""),
      Rec(KeyB, RefB, FALSE, ""),
      Rec(KeyA, RefPlaceholder, FALSE, ""),
      Rec(KeyA, RefDev, TRUE, "Development"),
      Rec(KeyA, RefProd, TRUE, "production") }

Tables ==
    UNION { { s \in [1..n -> RecordSet] : \A i, j \in 1..n : i # j => s[i] # s[j] }
            : n \in 0..MaxRecords }

Cfg(de, ex, inc, exp) ==
    [default_exclusions |-> de, exclusions |-> ex, inclusions |-> inc, expected_variables |-> exp]

ConfigSet ==
    { Cfg({}, {}, {}, {}),
      Cfg({KeyA}, {}, {}, {}),
      Cfg({}, {KeyC}, {}, {}),
      Cfg({}, {}, {KeyB}, {}),
      Cfg({KeyC}, {}, {}, {KeyA}) }

\* what `op read <ref>` does: its exit status and what it writes to stdout and stderr
Cli(rc, out, err) == [returncode |-> rc, stdout |-> out, stderr |-> err]

VaultAnswers(ref) ==
    IF ref = RefA
    THEN { Cli(0, <<"s", "NL">>, <<>>),
           Cli(0, <<"s", "NL", "t", "NL", "C", "=", "y", "NL">>, <<>>),
           Cli(1, <<>>, <<"denied", "NL">>) }
    ELSE IF ref = RefB
    THEN { Cli(0, <<"{}", "NL">>, <<>>), Cli(0, <<"t", "NL">>, <<>>), Cli(0, <<"NL">>, <<>>) }
    ELSE { Cli(0, <<"x", "NL">>, <<>>) }

(***************************************************************************)
(* The functions of the script                                             *)
(***************************************************************************)
\* get_exclusions
GetExclusions(c) == c.default_exclusions \cup c.exclusions

\* get_inclusions
GetInclusions(c) ==
    LET incl == c.inclusions \cup c.expected_variables
    IN IF incl # {} THEN [is_none |-> FALSE, names |-> incl] ELSE NoInclusions

\* str.lower() on the environment names
Lower(s) ==
    CASE s = "Development" -> "development"
      [] s = "PRODUCTION" -> "production"
      [] OTHER -> s

\* os.getenv("ENVIRONMENT", "development").lower()
CurrentEnv == Lower("development")

IsPlaceholder(ref) == ref # <<>> /\ Head(ref) = "PLACEHOLDER_"

\* load_mappings_via_mcp: the loop over the records
RECURSIVE LoadMappingsViaMcp(_, _)
LoadMappingsViaMcp(records, od) ==
    IF records = <<>> THEN od
    ELSE LET record == Head(records)
             rest == Tail(records)
         IN IF record.env_var = <<>> \/ record.op_reference = <<>>
            THEN LoadMappingsViaMcp(rest, od)
            ELSE IF IsPlaceholder(record.op_reference)
            THEN LoadMappingsViaMcp(rest, od)
            ELSE IF record.environment_based /\ Lower(record.environment_key) # CurrentEnv
            THEN LoadMappingsViaMcp(rest, od)
            ELSE LoadMappingsViaMcp(rest, OdPut(od, record.env_var, record.op_reference))

\* OpRead whose error message quotes what the CLI wrote
OpRead_EmbedsOutput(ref, cli) ==
    IF cli.returncode # 0
    THEN [ok |-> FALSE, error |-> <<"1Password CLI error for">> \o ref \o RStripNL(cli.stderr)]
    ELSE LET value == RStripNL(cli.stdout)
         IN IF value = <<>>
            THEN [ok |-> FALSE, error |-> <<"Empty value returned for 1Password ref: ">> \o ref]
            ELSE [ok |-> TRUE, value |-> value]

\* op_read
OpRead(ref, cli) ==
    IF cli.returncode # 0
    THEN [ok |-> FALSE, error |-> <<"1Password CLI error for">> \o ref]
    ELSE LET value == RStripNL(cli.stdout)
         IN IF value = <<>>
            THEN [ok |-> FALSE, error |-> <<"Empty value returned for 1Password ref: ">> \o ref]
            ELSE [ok |-> TRUE, value |-> value]

\* json.loads succeeds
IsJson(value) == value = <<"{}">>

GoogleApplicationCredentials == <<"GOOGLE_APPLICATION", "_CREDENTIALS">>
GoogleOauthCredentials == <<"GOOGLE_OAUTH", "_CREDENTIALS">>

\* NeedsFileWrite that never asks for a side file
NeedsFileWrite_Never(env_key, value) == FALSE

\* needs_file_write
NeedsFileWrite(env_key, value) ==
    IF env_key = GoogleApplicationCredentials
    THEN IF ~(Strip(value) # <<>> /\ Head(Strip(value)) = "{}")
            /\ ((value # <<>> /\ value[Len(value)] = ".json")
                \/ "/" \in Range(value) \/ "\\" \in Range(value))
         THEN FALSE
         ELSE IsJson(value)
    ELSE IF env_key # <<>> /\ env_key[Len(env_key)] = "_CREDENTIALS"
    THEN IsJson(value)
    ELSE FALSE

\* env_key.lower().replace("_", "-")
LowerHyphen(tok) ==
    CASE tok = "_CREDENTIALS" -> "-credentials"
      [] tok = "SVC" -> "svc"
      [] tok = "A" -> "a"
      [] tok = "B" -> "b"
      [] tok = "C" -> "c"
      [] OTHER -> tok

CredsFileName(env_key) ==
    IF env_key = GoogleOauthCredentials THEN <<"gcp-oauth.keys.json">>
    ELSE IF env_key = GoogleApplicationCredentials THEN <<"gcp-service-account.json">>
    ELSE [i \in DOMAIN env_key |-> LowerHyphen(env_key[i])] \o <<".json">>

\* write_json_to_creds_file: the path of the side file, relative to the repository root
CredsPath(filename) == <<".creds", "/">> \o filename

\* the target file (repo_root / ".env") and the backup directory (repo_root / ".env.backups")
TargetPath == <<".env">>
BackupDir == <<".env.backups">>

\* the tokens whose text starts with "#"
HashTokens == {"# note", HeaderManaged, HeaderUnmanagedPrefix}

\* parse_env_file: the loop over the lines
RECURSIVE ParseLines(_, _, _)
ParseLines(lines, comments, variables) ==
    IF lines = <<>> THEN [comment_lines |-> comments, variables |-> variables]
    ELSE LET line == Head(lines)
             stripped == Strip(line)
             eq == IndexOf(line, "=")
         IN IF stripped = <<>> \/ Head(stripped) \in HashTokens
            THEN ParseLines(Tail(lines), Append(comments, line), variables)
            ELSE IF eq # 0
            THEN LET key == Strip(SubSeq(line, 1, eq - 1))
                     value == Strip(SubSeq(line, eq + 1, Len(line)))
                 IN IF key # <<>>
                    THEN ParseLines(Tail(lines), comments, DictPut(variables, key, value))
                    ELSE ParseLines(Tail(lines), comments, variables)
            ELSE ParseLines(Tail(lines), Append(comments, line), variables)

\* parse_env_file
ParseEnvFile(file) ==
    IF ~file.exists THEN [comment_lines |-> <<>>, variables |-> EmptyDict]
    ELSE ParseLines(SplitLines(file.text), <<>>, EmptyDict)

\* UnmanagedVars with the exclusion test the wrong way round
UnmanagedVars_InvertedExclusion(existing, managed_var_names, excl) ==
    [k \in {x \in DOMAIN existing : x \notin managed_var_names /\ x \in excl} |-> existing[k]]

\* UnmanagedVars without the exclusion test
UnmanagedVars_NoExclusion(existing, managed_var_names, excl) ==
    [k \in {x \in DOMAIN existing : x \notin managed_var_names} |-> existing[k]]

\* sync_env: the unmanaged variables
UnmanagedVars(existing, managed_var_names, excl) ==
    [k \in {x \in DOMAIN existing : x \notin managed_var_names /\ x \notin excl} |-> existing[k]]

RECURSIVE DropLeadingBlank(_)
DropLeadingBlank(lines) ==
    IF lines # <<>> /\ Strip(Head(lines)) = <<>> THEN DropLeadingBlank(Tail(lines)) ELSE lines

RECURSIVE DropTrailingBlank(_)
DropTrailingBlank(lines) ==
    IF lines # <<>> /\ Strip(lines[Len(lines)]) = <<>>
    THEN DropTrailingBlank(SubSeq(lines, 1, Len(lines) - 1))
    ELSE lines

IsSectionHeader(line) ==
    Strip(line) # <<>> /\ Head(Strip(line)) \in {HeaderManaged, HeaderUnmanagedPrefix}

\* sync_env: the comment lines carried over
StrippedComments(comments) ==
    DropTrailingBlank(SelectSeq(DropLeadingBlank(comments), LAMBDA line : ~IsSectionHeader(line)))

AssignmentLines(d) ==
    LET keys == Sorted(DOMAIN d)
    IN [i \in DOMAIN keys |-> keys[i] \o <<"=">> \o d[keys[i]]]

\* sync_env: the new file's lines
BuildLines(comments, resolved, unmanaged) ==
    LET stripped_comments == StrippedComments(comments)
    IN stripped_comments
       \o (IF DOMAIN resolved # {}
           THEN (IF stripped_comments # <<>> THEN << <<>> >> ELSE <<>>)
                \o << <<HeaderManaged>> >> \o AssignmentLines(resolved)
           ELSE <<>>)
       \o (IF DOMAIN unmanaged # {}
           THEN << <<>>, HeaderUnmanaged >> \o AssignmentLines(unmanaged)
           ELSE <<>>)

\* FileText that leaves out the last line
FileText_Truncated(lines) ==
    File(JoinLines(SubSeq(lines, 1, Len(lines) - 1)) \o <<"NL">>)

\* Path.write_text("\n".join(new_lines) + "\n")
FileText(lines) == File(JoinLines(lines) \o <<"NL">>)

(***************************************************************************)
(* main() and sync_env(), step by step                                     *)
(***************************************************************************)
Init ==
    /\ pc = "start"
    /\ runs = 0
    /\ target \in InitFiles
    /\ backups = EmptyDict
    /\ creds = EmptyDict
    /\ last_backup_ts = 0
    /\ config = {}
    /\ table = {}
    /\ vault = EmptyDict
    /\ orig = target
    /\ synced = FALSE
    /\ orig_synced = FALSE
    /\ exclusions = {}
    /\ inclusions = NoInclusions
    /\ backup_path = 0
    /\ env_to_op_ref = <<>>
    /\ todo = <<>>
    /\ comment_lines = <<>>
    /\ existing_vars = EmptyDict
    /\ unmanaged_vars = EmptyDict
    /\ resolved_vars = EmptyDict
    /\ updated = <<>>
    /\ skipped = <<>>
    /\ new_lines = <<>>
    /\ op_calls = <<>>
    /\ printed = <<>>
    /\ written = 0
    /\ touched = {}
    /\ twins = {}
    /\ exit_code = -1

disk == <<target, backups, creds, last_backup_ts>>
world == <<config, table, vault>>
history == <<orig, synced, orig_synced>>
locals == <<env_to_op_ref, todo, comment_lines, existing_vars, unmanaged_vars,
            resolved_vars, updated, skipped, new_lines, op_calls>>

\* NextStep with the backup made before the session check
NextStep_BackupFirst(step) ==
    CASE step = "start" -> "config"
      [] step = "config" -> "backup"
      [] step = "backup" -> "session"
      [] step = "session" -> "sync"

\* main: the statement that follows a step that has not returned
NextStep(step) ==
    CASE step = "start" -> "config"
      [] step = "config" -> "session"
      [] step = "session" -> "backup"
      [] step = "backup" -> "sync"

\* MainReturn that reports success whatever happened
MainReturn_AlwaysZero(raised) == 0

\* main: step 3, the return value after sync_env returned or raised
MainReturn(raised) == IF raised THEN 1 ELSE 0

\* main: find_repo_root() returns or raises
FindRepoRoot ==
    /\ pc = "start"
    /\ \E found \in BOOLEAN :
          IF found
          THEN /\ pc' = NextStep("start")
               /\ printed' = Append(printed, <<"Repository root", <<>>>>)
               /\ exit_code' = exit_code
          ELSE /\ pc' = "done"
               /\ printed' = Append(printed, <<"ERROR", <<"Could not find repository root">>>>)
               /\ exit_code' = 1
    /\ UNCHANGED <<runs, disk, world, history, exclusions, inclusions, backup_path, locals,
                   written, touched, twins>>

\* main: load_config, get_exclusions, get_inclusions
LoadConfig ==
    /\ pc = "config"
    /\ \E c \in ConfigSet :
          /\ config \in {{}, {c}}
          /\ config' = {c}
          /\ exclusions' = GetExclusions(c)
          /\ inclusions' = GetInclusions(c)
    /\ pc' = NextStep("config")
    /\ UNCHANGED <<runs, disk, table, vault, history, backup_path, locals, printed, written,
                   touched, twins, exit_code>>

\* main: step 1, check_op_session()
CheckOpSession ==
    /\ pc = "session"
    /\ \E active \in BOOLEAN :
          IF active
          THEN /\ pc' = NextStep("session")
               /\ printed' = Append(printed, <<"1Password session active", <<>>>>)
               /\ exit_code' = exit_code
          ELSE /\ pc' = "done"
               /\ printed' = Append(printed, <<"ERROR", <<"1Password CLI is not authenticated">>>>)
               /\ exit_code' = 1
    /\ UNCHANGED <<runs, disk, world, history, exclusions, inclusions, backup_path, locals,
                   written, touched, twins>>

\* the second datetime.now() shows: that of the latest backup, or a later one
ClockSeconds == IF last_backup_ts = 0 THEN {1} ELSE {last_backup_ts, last_backup_ts + 1}

\* BackupWrite that writes nothing
BackupWrite_Skipped(dir, timestamp, text) == dir

\* backup_env_file: Path.write_text creates the backup file or replaces its content
BackupWrite(dir, timestamp, text) == DictPut(dir, timestamp, text)

\* main: step 2, backup_env_file(target, repo_root)
BackupEnvFile ==
    /\ pc = "backup"
    /\ IF ~target.exists
       THEN /\ backup_path' = 0
            /\ printed' = Append(printed, <<"No existing .env file to backup", <<>>>>)
            /\ UNCHANGED <<backups, last_backup_ts, touched>>
       ELSE \E timestamp \in ClockSeconds :
               /\ backups' = BackupWrite(backups, timestamp, target.text)
               /\ touched' = touched \cup {BackupDir}
               /\ last_backup_ts' = timestamp
               /\ backup_path' = timestamp
               /\ printed' = Append(printed, <<"Backup created", <<timestamp>>>>)
    /\ runs' = runs + 1
    /\ pc' = NextStep("backup")
    /\ UNCHANGED <<target, creds, world, history, exclusions, inclusions, locals, written,
                   twins, exit_code>>

\* what str(e) is when load_env_mappings raises: MCP_AVAILABLE is false, no server script is
\* found, or the tool call fails (the handler of _call_tool then trips over python_cmd)
LoadFailures ==
    { "MCP client dependencies not available",
      "Could not find parquet MCP server",
      "name 'python_cmd' is not defined" }

\* sync_env: env_to_op_ref after the inclusion list is applied
ApplyInclusions(od, incl) == IF ~incl.is_none THEN OdFilter(od, incl.names) ELSE od

\* main: step 3, sync_env up to the loop over env_to_op_ref (and main's except clause)
SyncEnvBegin ==
    /\ pc = "sync"
    /\ \E t \in {Reachable(records) : records \in Tables} \cup {Unreachable} :
          /\ table \in {{}, {t}}
          /\ table' = {t}
          /\ IF ~t.reachable
             THEN \* load_env_mappings raises
                  /\ pc' = "done"
                  /\ exit_code' = MainReturn(TRUE)
                  /\ \E cause \in LoadFailures :
                        printed' = printed \o << <<"Sync failed", <<cause>>>> >>
                                \o (IF backup_path # 0
                                    THEN << <<"You can restore from backup", <<backup_path>>>> >>
                                    ELSE <<>>)
                  /\ UNCHANGED <<locals, twins>>
             ELSE LET loaded == LoadMappingsViaMcp(t.records, <<>>)
                      filtered == ApplyInclusions(loaded, inclusions)
                      parsed == ParseEnvFile(target)
                      unmanaged == UnmanagedVars(parsed.variables, OdKeys(filtered), exclusions)
                      excluded == {k \in DOMAIN parsed.variables : k \in exclusions}
                  IN IF loaded = <<>>
                     THEN \* no mappings: sync_env returns
                          /\ pc' = "done"
                          /\ exit_code' = MainReturn(FALSE)
                          /\ printed' = printed \o << <<"WARNING: No environment variable mappings found", <<>>>>,
                                                      <<"Sync completed successfully", <<>>>> >>
                          /\ UNCHANGED <<locals, twins>>
                     ELSE IF filtered = <<>>
                     THEN \* load_env_mappings returns a tuple: all_mappings.keys() raises
                          /\ pc' = "done"
                          /\ exit_code' = MainReturn(TRUE)
                          /\ env_to_op_ref' = filtered
                          /\ printed' = printed
                                \o << <<"Inclusion list active: filtered out", <<Len(loaded)>>>>,
                                      <<"WARNING: No environment variable mappings match the inclusion list", <<>>>>,
                                      <<"Sync failed", <<"'tuple' object has no attribute 'keys'">>>> >>
                                \o (IF backup_path # 0
                                    THEN << <<"You can restore from backup", <<backup_path>>>> >>
                                    ELSE <<>>)
                          /\ UNCHANGED <<todo, comment_lines, existing_vars, unmanaged_vars,
                                         resolved_vars, updated, skipped, new_lines, op_calls,
                                         twins>>
                     ELSE /\ pc' = "resolve"
                          /\ exit_code' = exit_code
                          /\ env_to_op_ref' = filtered
                          /\ todo' = filtered
                          /\ comment_lines' = parsed.comment_lines
                          /\ existing_vars' = parsed.variables
                          /\ unmanaged_vars' = unmanaged
                          /\ resolved_vars' = EmptyDict
                          /\ updated' = <<>>
                          /\ skipped' = <<>>
                          /\ printed' = printed
                                \o (IF Len(loaded) > Len(filtered)
                                    THEN << <<"Inclusion list active: filtered out", <<Len(loaded) - Len(filtered)>>>> >>
                                    ELSE <<>>)
                                \o (IF DOMAIN unmanaged # {}
                                    THEN << <<"Preserving unmanaged variable(s)", Sorted(DOMAIN unmanaged)>> >>
                                    ELSE <<>>)
                                \o (IF excluded # {}
                                    THEN << <<"Excluding variable(s) from preservation", Sorted(excluded)>> >>
                                    ELSE <<>>)
                          /\ twins' = {[log |-> printed', updated |-> <<>>, alike |-> TRUE]}
                          /\ UNCHANGED <<new_lines, op_calls>>
    /\ UNCHANGED <<runs, disk, config, vault, history, exclusions, inclusions, backup_path,
                   written, touched>>

\* sync_env: what the loop body leaves in resolved_vars for a placeholder reference
PlaceholderValue(resolved, existing, env_key) ==
    IF env_key \in DOMAIN existing THEN DictPut(resolved, env_key, existing[env_key]) ELSE resolved

\* FallbackValue that keeps no existing value
FallbackValue_NoFallback(resolved, existing, env_key) == resolved

\* FallbackValue that starts resolved_vars afresh
FallbackValue_Reset(resolved, existing, env_key) ==
    IF env_key \in DOMAIN existing THEN DictPut(EmptyDict, env_key, existing[env_key])
    ELSE EmptyDict

\* sync_env: what the except clause leaves in resolved_vars
FallbackValue(resolved, existing, env_key) ==
    IF env_key \in DOMAIN existing THEN DictPut(resolved, env_key, existing[env_key]) ELSE resolved

\* sync_env: what a resolved value leaves in resolved_vars
ResolvedValue(resolved, env_key, value) ==
    IF NeedsFileWrite(env_key, value)
    THEN DictPut(resolved, env_key, <<"Q">> \o CredsPath(CredsFileName(env_key)) \o <<"Q">>)
    ELSE DictPut(resolved, env_key, <<"Q">> \o value \o <<"Q">>)

\* sync_env: what one pass of the loop prints when the reference is no placeholder
ResolveLog(log, env_key, op_ref, cli, existing) ==
    LET r == OpRead(op_ref, cli)
    IN IF r.ok
       THEN log \o << <<"Resolving", env_key>> >>
                \o (IF NeedsFileWrite(env_key, r.value)
                    THEN << <<"Saved JSON to", CredsPath(CredsFileName(env_key))>> >>
                    ELSE <<>>)
       ELSE log \o << <<"Resolving", env_key>>,
                      <<"WARNING: Failed to resolve", env_key \o r.error>> >>
                \o (IF env_key \in DOMAIN existing
                    THEN << <<"Using existing value as fallback", <<>>>> >>
                    ELSE <<>>)

\* sync_env: the list of updated keys after one pass of the loop
ResolveUpdated(upd, env_key, op_ref, cli) ==
    IF OpRead(op_ref, cli).ok THEN Append(upd, env_key) ELSE upd

\* sync_env and main: what is printed after the file is written
FinishLog(log, upd, skip) ==
    log \o (IF upd # <<>>
            THEN << <<"Replaced managed variable(s) (values NOT shown)", Sorted(Range(upd))>> >>
            ELSE << <<"No managed variables were updated", <<>>>> >>)
        \o (IF skip # <<>>
            THEN << <<"Skipped keys with PLACEHOLDER references", skip>> >>
            ELSE <<>>)
        \o << <<"Sync completed successfully", <<>>>> >>

\* the answers `op read` may give in a run that differs from this one only in the secret
\* values returned: any value where this run got a value, the same failure otherwise
OtherAnswers(op_ref, cli) ==
    IF OpRead(op_ref, cli).ok
    THEN {c \in VaultAnswers(op_ref) : OpRead(op_ref, c).ok}
    ELSE {cli}

\* sync_env: one pass of the loop over env_to_op_ref.items()
ResolveKey ==
    /\ pc = "resolve"
    /\ todo # <<>>
    /\ LET env_key == Head(todo)[1]
           op_ref == Head(todo)[2]
       IN IF IsPlaceholder(op_ref)
          THEN /\ skipped' = Append(skipped, env_key)
               /\ resolved_vars' = PlaceholderValue(resolved_vars, existing_vars, env_key)
               /\ printed' = IF env_key \in DOMAIN existing_vars
                             THEN Append(printed, <<"Preserving (placeholder, using existing value)", env_key>>)
                             ELSE printed
               /\ twins' = { [a EXCEPT !.log = IF env_key \in DOMAIN existing_vars
                                                THEN Append(a.log, <<"Preserving (placeholder, using existing value)", env_key>>)
                                                ELSE a.log] : a \in twins }
               /\ UNCHANGED <<vault, op_calls, updated, creds, touched>>
          ELSE \E cli \in VaultAnswers(op_ref) :
                  /\ op_ref \in DOMAIN vault => cli = vault[op_ref]
                  /\ vault' = DictPut(vault, op_ref, cli)
                  /\ op_calls' = Append(op_calls, op_ref)
                  /\ skipped' = skipped
                  /\ printed' = ResolveLog(printed, env_key, op_ref, cli, existing_vars)
                  /\ twins' = { [log |-> ResolveLog(a.log, env_key, op_ref, c, existing_vars),
                                 updated |-> ResolveUpdated(a.updated, env_key, op_ref, c),
                                 alike |-> a.alike /\ (OpRead(op_ref, c).ok =>
                                              NeedsFileWrite(env_key, OpRead(op_ref, c).value)
                                              = NeedsFileWrite(env_key, OpRead(op_ref, cli).value))]
                               : a \in twins, c \in OtherAnswers(op_ref, cli) }
                  /\ LET r == OpRead(op_ref, cli)
                     IN IF r.ok
                        THEN /\ resolved_vars' = ResolvedValue(resolved_vars, env_key, r.value)
                             /\ creds' = IF NeedsFileWrite(env_key, r.value)
                                         THEN DictPut(creds, CredsFileName(env_key), r.value)
                                         ELSE creds
                             /\ touched' = IF NeedsFileWrite(env_key, r.value)
                                           THEN touched \cup {CredsPath(CredsFileName(env_key))}
                                           ELSE touched
                             /\ updated' = ResolveUpdated(updated, env_key, op_ref, cli)
                        ELSE /\ resolved_vars' = FallbackValue(resolved_vars, existing_vars, env_key)
                             /\ UNCHANGED <<updated, creds, touched>>
    /\ todo' = Tail(todo)
    /\ UNCHANGED <<pc, runs, target, backups, last_backup_ts, config, table, history, exclusions,
                   inclusions, backup_path, env_to_op_ref, comment_lines, existing_vars,
                   unmanaged_vars, new_lines, written, exit_code>>

\* sync_env after the loop: build the lines, replace the file, report; main returns 0
SyncEnvFinish ==
    /\ pc = "resolve"
    /\ todo = <<>>
    /\ new_lines' = BuildLines(comment_lines, resolved_vars, unmanaged_vars)
    /\ target' = FileText(new_lines')
    /\ written' = written + 1
    /\ touched' = touched \cup {TargetPath}
    /\ synced' = TRUE
    /\ printed' = FinishLog(printed, updated, skipped)
    /\ twins' = { [a EXCEPT !.log = FinishLog(a.log, a.updated, skipped)] : a \in twins }
    /\ exit_code' = MainReturn(FALSE)
    /\ pc' = "done"
    /\ UNCHANGED <<runs, backups, creds, last_backup_ts, world, orig, orig_synced, exclusions,
                   inclusions, backup_path, env_to_op_ref, todo, comment_lines, existing_vars,
                   unmanaged_vars, resolved_vars, updated, skipped, op_calls>>

\* the operator starts main() again
NewRun ==
    /\ pc = "done"
    /\ runs < MaxRuns
    /\ pc' = "start"
    /\ orig' = target
    /\ orig_synced' = synced
    /\ exclusions' = {}
    /\ inclusions' = NoInclusions
    /\ backup_path' = 0
    /\ env_to_op_ref' = <<>>
    /\ todo' = <<>>
    /\ comment_lines' = <<>>
    /\ existing_vars' = EmptyDict
    /\ unmanaged_vars' = EmptyDict
    /\ resolved_vars' = EmptyDict
    /\ updated' = <<>>
    /\ skipped' = <<>>
    /\ new_lines' = <<>>
    /\ op_calls' = <<>>
    /\ printed' = <<>>
    /\ written' = 0
    /\ touched' = {}
    /\ twins' = {}
    /\ exit_code' = -1
    /\ UNCHANGED <<runs, disk, world, synced>>

Next ==
    \/ FindRepoRoot
    \/ LoadConfig
    \/ CheckOpSession
    \/ BackupEnvFile
    \/ SyncEnvBegin
    \/ ResolveKey
    \/ SyncEnvFinish
    \/ NewRun

Spec == Init /\ [][Next]_vars

(***************************************************************************)
(* Vocabulary of the properties                                            *)
(***************************************************************************)
\* the variables of the target file as the run found it, and as it is now
OrigVars == ParseEnvFile(orig).variables
NowVars == ParseEnvFile(target).variables

\* the managed mapping: what the loader made of the table (before the inclusion list)
TableRead == table # {}
TheTable == CHOOSE t \in table : TRUE
ManagedMapping ==
    IF TableRead /\ TheTable.reachable THEN LoadMappingsViaMcp(TheTable.records, <<>>) ELSE <<>>

\* the run has returned from sync_env after replacing the target file
Wrote == pc = "done" /\ written = 1

\* line "key=value" is one of the lines the run wrote
WroteLine(key, value) == \E i \in DOMAIN new_lines : new_lines[i] = key \o <<"=">> \o value

\* some line the run wrote assigns key
WroteKey(key) ==
    \E i \in DOMAIN new_lines :
        /\ Len(new_lines[i]) > Len(key)
        /\ SubSeq(new_lines[i], 1, Len(key) + 1) = key \o <<"=">>

\* every value sync_env wrote in the managed section is a single line
SingleLineValues == \A k \in DOMAIN resolved_vars : "NL" \notin Range(resolved_vars[k])

\* op_read was called for ref in this run and failed / succeeded
ReadFailed(ref) == ref \in Range(op_calls) /\ ~OpRead(ref, vault[ref]).ok
ReadOk(ref) == ref \in Range(op_calls) /\ OpRead(ref, vault[ref]).ok

(***************************************************************************)
(* C1  Unmanaged preservation: when main has returned, every key the       *)
(* target file held at the start of the run that is neither in the managed *)
(* mapping nor excluded is still in the file, with the value it had; and   *)
(* when the run replaced the file, the line key=value is among the lines   *)
(* it wrote.                                                               *)
(***************************************************************************)
C1_UnmanagedPreserved ==
    pc = "done" =>
        \A K \in DOMAIN OrigVars :
            (K \notin OdKeys(ManagedMapping) /\ K \notin exclusions) =>
                /\ target.exists
                /\ K \in DOMAIN NowVars
                /\ NowVars[K] = OrigVars[K]
                /\ Wrote => WroteLine(K, OrigVars[K])

\* a run that replaced a file holding C, resolved a managed key and excluded another key
C1_Witness ==
    /\ Wrote
    /\ KeyC \in DOMAIN OrigVars
    /\ KeyC \notin exclusions
    /\ exclusions # {}
    /\ updated # <<>>
    /\ target # orig

C3_InclusionNarrows ==
    (Wrote /\ ~inclusions.is_none) =>
        \A B \in OdKeys(ManagedMapping) \ inclusions.names :
            /\ OdGet(ManagedMapping, B) \notin Range(op_calls)
            /\ B \notin DOMAIN resolved_vars
            /\ B \notin DOMAIN unmanaged_vars
            /\ ~WroteKey(B)

(***************************************************************************)
(* C4  Fallback on resolver failure: when the run has replaced the file,   *)
(* a synced key whose op_read failed is written as key=V with the value V  *)
(* the original file had for it, and is not written at all when the        *)
(* original file had none.                                                 *)
(***************************************************************************)
C4_FallbackOnFailure ==
    Wrote =>
        \A K \in OdKeys(env_to_op_ref) :
            ReadFailed(OdGet(env_to_op_ref, K)) =>
                IF K \in DOMAIN OrigVars
                THEN /\ WroteLine(K, OrigVars[K])
                     /\ K \in DOMAIN NowVars
                     /\ NowVars[K] = OrigVars[K]
                ELSE /\ ~WroteKey(K)
                     /\ K \notin DOMAIN NowVars

\* a run in which the reads for A and B failed, A with an existing value and B without
C4_Witness ==
    /\ Wrote
    /\ {KeyA, KeyB} \subseteq OdKeys(env_to_op_ref)
    /\ ReadFailed(OdGet(env_to_op_ref, KeyA))
    /\ ReadFailed(OdGet(env_to_op_ref, KeyB))
    /\ KeyA \in DOMAIN OrigVars
    /\ KeyB \notin DOMAIN OrigVars

(***************************************************************************)
(* C5  Per-key failure isolation: a run in which some op_read failed still *)
(* visits every synced key, replaces the file once and returns 0, and      *)
(* every synced key whose own op_read succeeded is written with its        *)
(* freshly resolved value in quotes (the quoted side-file path when the    *)
(* value went to a side file).                                             *)
(***************************************************************************)
C5_FailureIsolation ==
    (pc = "done" /\ \E i \in DOMAIN op_calls : ReadFailed(op_calls[i])) =>
        /\ written = 1
        /\ exit_code = 0
        /\ \A K \in OdKeys(env_to_op_ref) :
              LET ref == OdGet(env_to_op_ref, K)
              IN /\ ref \in Range(op_calls)
                 /\ OpRead(ref, vault[ref]).ok =>
                       /\ K \in DOMAIN resolved_vars
                       /\ resolved_vars[K] =
                             IF NeedsFileWrite(K, RStripNL(vault[ref].stdout))
                             THEN <<"Q", ".creds", "/">> \o CredsFileName(K) \o <<"Q">>
                             ELSE <<"Q">> \o RStripNL(vault[ref].stdout) \o <<"Q">>
                       /\ WroteLine(K, resolved_vars[K])
                       /\ K \in Range(updated)

\* a run in which one key was resolved and, after it, the read for another key failed
C5_Witness ==
    /\ pc = "done"
    /\ Len(op_calls) = 2
    /\ ReadOk(op_calls[1])
    /\ ReadFailed(op_calls[2])
    /\ OdGet(env_to_op_ref, env_to_op_ref[2][1]) = op_calls[2]
    /\ env_to_op_ref[2][1] \in DOMAIN OrigVars

(***************************************************************************)
(* Placeholder records of the table                                        *)
(***************************************************************************)
TableRecords == IF TableRead /\ TheTable.reachable THEN TheTable.records ELSE <<>>

PlaceholderRecords == {r \in Range(TableRecords) : IsPlaceholder(r.op_reference)}

\* the key of record r has no record with a live reference beside it
OnlyPlaceholder(r) ==
    \A q \in Range(TableRecords) : q.env_var = r.env_var => IsPlaceholder(q.op_reference)

(***************************************************************************)
(* C6  Placeholder skip (value), as claimed: when the run has replaced the *)
(* file, the reference of a placeholder record was not handed to op_read,  *)
(* and if the record's key (a key with no live reference of its own) had a *)
(* value in the original file, the new file holds the key with that value, *)
(* whatever the exclusion and inclusion lists are.                         *)
(***************************************************************************)
C6_PlaceholderValue ==
    Wrote =>
        \A r \in PlaceholderRecords :
            /\ r.op_reference \notin Range(op_calls)
            /\ (OnlyPlaceholder(r) /\ r.env_var \in DOMAIN OrigVars) =>
                  /\ WroteLine(r.env_var, OrigVars[r.env_var])
                  /\ r.env_var \in DOMAIN NowVars
                  /\ NowVars[r.env_var] = OrigVars[r.env_var]

(***************************************************************************)
(* C7  Placeholder skip (reporting), as claimed: when sync_env has         *)
(* returned after replacing the file, the key of every placeholder record  *)
(* (a key with no live reference of its own) is in the skipped list and is *)
(* named in the printed "Skipped keys with PLACEHOLDER references" report. *)
(***************************************************************************)
C7_PlaceholderReported ==
    Wrote =>
        \A r \in PlaceholderRecords :
            OnlyPlaceholder(r) =>
                /\ r.env_var \in Range(skipped)
                /\ \E i \in DOMAIN printed :
                      /\ printed[i][1] = "Skipped keys with PLACEHOLDER references"
                      /\ r.env_var \in Range(printed[i][2])

(***************************************************************************)
(* The layout of a file                                                    *)
(***************************************************************************)
LinesOf(file) == IF file.exists THEN SplitLines(file.text) ELSE <<>>

\* number of lines of the file that are the section header starting with token header
HeaderCount(file, header) ==
    Cardinality({i \in DOMAIN LinesOf(file) :
                    Strip(LinesOf(file)[i]) # <<>> /\ Head(Strip(LinesOf(file)[i])) = header})

\* the leading comment block: the lines the next run carries over to the top of the file
LeadingBlock(file) == StrippedComments(ParseEnvFile(file).comment_lines)

(***************************************************************************)
(* C8  Idempotence of headers, as claimed: when a run has replaced a file  *)
(* that the run before it wrote (same table, configuration and vault), the *)
(* file holds each section header at most once and its leading comment     *)
(* block is no longer than that of the file the run started from.          *)
(***************************************************************************)
C8_HeaderIdempotence ==
    (Wrote /\ orig_synced) =>
        /\ HeaderCount(target, HeaderManaged) <= 1
        /\ HeaderCount(target, HeaderUnmanagedPrefix) <= 1
        /\ Len(LeadingBlock(target)) <= Len(LeadingBlock(orig))

(***************************************************************************)
(* C9  Ordering: whenever a step changes the target file, the run has by   *)
(* then printed that the vault session is active and has completed the     *)
(* backup step: either there was no file to back up, or the backup named   *)
(* by backup_path holds the text the target file had when the run started. *)
(***************************************************************************)
SessionChecked == \E i \in DOMAIN printed : printed[i][1] = "1Password session active"

BackupDone ==
    IF orig.exists
    THEN /\ \E i \in DOMAIN printed : printed[i] = <<"Backup created", <<backup_path>>>>
         /\ backup_path \in DOMAIN backups
         /\ backups[backup_path] = orig.text
    ELSE \E i \in DOMAIN printed : printed[i][1] = "No existing .env file to backup"

C9_WriteAfterSessionAndBackup == [][target' # target => SessionChecked /\ BackupDone]_vars

\* a run that backed up an existing file and then changed it
C9_Witness ==
    /\ Wrote
    /\ orig.exists
    /\ target # orig
    /\ backup_path \in DOMAIN backups

(***************************************************************************)
(* C10  Backups are write-once, as claimed: no step changes or removes a   *)
(* backup file that exists.                                                *)
(***************************************************************************)
C10_BackupsWriteOnce ==
    [][\A t \in DOMAIN backups : t \in DOMAIN backups' /\ backups'[t] = backups[t]]_vars

(***************************************************************************)
(* The fatal conditions of a run, as its output shows them                 *)
(***************************************************************************)
Said(tag, arg) == \E i \in DOMAIN printed : printed[i] = <<tag, arg>>

RootNotFound == Said("ERROR", <<"Could not find repository root">>)
SessionInactive == Said("ERROR", <<"1Password CLI is not authenticated">>)
SourceUnreachable == \E cause \in LoadFailures : Said("Sync failed", <<cause>>)
RaisedInSync == Said("Sync failed", <<"'tuple' object has no attribute 'keys'">>)

(***************************************************************************)
(* C11  Fatal conditions stop before any file mutation, as claimed: when   *)
(* main has returned because the repository root was not found, the vault  *)
(* session was not authenticated or the mapping source was unreachable,    *)
(* the run has created or written no file: not the target file, not a      *)
(* backup, not a side file.                                                *)
(***************************************************************************)
C11_FatalBeforeMutation_Original ==
    (pc = "done" /\ (RootNotFound \/ SessionInactive \/ SourceUnreachable)) =>
        /\ touched = {}
        /\ target = orig

(***************************************************************************)
(* C11  Fatal conditions, amended: a run that ends because the repository  *)
(* root was not found or the session was not authenticated has created or  *)
(* written no file.  A run that ends because the mapping source was        *)
(* unreachable has written neither the target file nor a side file, but    *)
(* it has written the backup of the target file if the target existed.     *)
(***************************************************************************)
C11_FatalBeforeMutation ==
    pc = "done" =>
        /\ (RootNotFound \/ SessionInactive) => (touched = {} /\ target = orig /\ exit_code = 1)
        /\ SourceUnreachable =>
              /\ touched = IF orig.exists THEN {BackupDir} ELSE {}
              /\ target = orig
              /\ written = 0
              /\ exit_code = 1

\* a run that backed up an existing target file and then found the mapping source unreachable
C11_Witness ==
    /\ pc = "done"
    /\ SourceUnreachable
    /\ orig.exists
    /\ BackupDir \in touched
    /\ backup_path \in DOMAIN backups

(***************************************************************************)
(* C12  Single atomic write, as claimed: a run that has returned 0 has     *)
(* written the target file exactly once.                                   *)
(***************************************************************************)
C12_SingleWrite_Original == (pc = "done" /\ exit_code = 0) => written = 1

(***************************************************************************)
(* C12  Single atomic write, amended: a run writes the target file at most *)
(* once.  Until it does, the file is as the run found it; once it has, the *)
(* loop has visited every key of the synced mapping and the file is the    *)
(* complete rendering: all the lines built, with a line for every resolved *)
(* and every unmanaged key.  A run that has returned 0 has written the     *)
(* file exactly once, unless the loader gave it an empty mapping: then it  *)
(* has written nothing.                                                    *)
(***************************************************************************)
C12_SingleWrite ==
    /\ written \in {0, 1}
    /\ written = 0 => (target = orig /\ TargetPath \notin touched)
    /\ written = 1 =>
          /\ pc = "done"
          /\ todo = <<>>
          /\ \A i \in DOMAIN env_to_op_ref : env_to_op_ref[i][2] \in Range(op_calls)
          /\ Len(op_calls) = Len(env_to_op_ref)
          /\ target.exists
          /\ target.text = JoinLines(new_lines) \o <<"NL">>
          /\ \A k \in DOMAIN resolved_vars : WroteLine(k, resolved_vars[k])
          /\ \A k \in DOMAIN unmanaged_vars : WroteLine(k, unmanaged_vars[k])
    /\ (pc = "done" /\ exit_code = 0) =>
          IF ManagedMapping = <<>> THEN written = 0 ELSE written = 1

\* a run that resolved two keys and then wrote a file that also keeps an unmanaged key
C12_Witness ==
    /\ Wrote
    /\ exit_code = 0
    /\ Len(op_calls) = 2
    /\ DOMAIN unmanaged_vars # {}
    /\ target # orig

(***************************************************************************)
(* C13  Exit status: when main has returned, its value is 1 if the         *)
(* repository root was not found, the session was not authenticated, the   *)
(* mapping could not be loaded or sync_env raised, and 0 otherwise; it is  *)
(* 0 only when sync_env returned without raising (after writing the file,  *)
(* or after finding no mapping to sync) and main printed its success line. *)
(***************************************************************************)
C13_ExitStatus ==
    pc = "done" =>
        /\ exit_code \in {0, 1}
        /\ (RootNotFound \/ SessionInactive \/ SourceUnreachable \/ RaisedInSync) => exit_code = 1
        /\ exit_code = 1 => (RootNotFound \/ SessionInactive \/ SourceUnreachable \/ RaisedInSync)
        /\ exit_code = 1 => (written = 0 /\ ~Said("Sync completed successfully", <<>>))
        /\ exit_code = 0 =>
              /\ Said("Sync completed successfully", <<>>)
              /\ SessionChecked
              /\ TableRead /\ TheTable.reachable
              /\ written = 1 \/ ManagedMapping = <<>>

\* a run in which sync_env raised after the backup was made, and main returned 1
C13_Witness ==
    /\ pc = "done"
    /\ exit_code = 1
    /\ RaisedInSync
    /\ backup_path # 0
    /\ Said("You can restore from backup", <<backup_path>>)

(***************************************************************************)
(* What the output and the resolver's errors say                           *)
(***************************************************************************)
\* p occurs in text t
IsInfix(p, t) == \E i \in 0..(Len(t) - Len(p)) : SubSeq(t, i + 1, i + Len(p)) = p

\* the messages whose argument is a list of keys, and those whose argument is a number
KeyListTags ==
    { "Preserving unmanaged variable(s)", "Excluding variable(s) from preservation",
      "Replaced managed variable(s) (values NOT shown)",
      "Skipped keys with PLACEHOLDER references" }
NumberTags == {"Backup created", "You can restore from backup", "Inclusion list active: filtered out"}

\* the pieces of text of a printed message, beside its fixed wording
MessageTexts(entry) ==
    IF entry[1] \in NumberTags THEN {}
    ELSE IF entry[1] \in KeyListTags THEN Range(entry[2])
    ELSE {entry[2]}

\* the lines of what `op read` wrote for the references read so far: secret values, CLI output
SecretLines ==
    { l \in UNION { Range(SplitLines(RStripNL(vault[ref].stdout)))
                      \cup Range(SplitLines(RStripNL(vault[ref].stderr))) : ref \in DOMAIN vault }
        : l # <<>> }

\* no message of log shows a line of a secret value or of the CLI's output
SecretFree(log) ==
    \A i \in DOMAIN log : \A t \in MessageTexts(log[i]) : \A l \in SecretLines : ~IsInfix(l, t)

\* no error that op_read raised in this run shows one
ErrorsSecretFree ==
    \A i \in DOMAIN op_calls :
        LET r == OpRead(op_calls[i], vault[op_calls[i]])
        IN ~r.ok => \A l \in SecretLines : ~IsInfix(l, r.error)

(***************************************************************************)
(* C14  No secret disclosure, as claimed: when main has returned, no       *)
(* message the run printed and no error op_read raised contains a resolved *)
(* value or output of the CLI, and a run that differs from this one only   *)
(* in the secret values returned has printed the same as this one.         *)
(***************************************************************************)
C14_NoDisclosure_Original ==
    pc = "done" =>
        /\ SecretFree(printed)
        /\ ErrorsSecretFree
        /\ Wrote => \A a \in twins : a.log = printed

(***************************************************************************)
(* C14  No secret disclosure, amended: when main has returned, no message  *)
(* the run printed and no error op_read raised contains a resolved value   *)
(* or output of the CLI; a run that differs from this one only in the      *)
(* secret values returned has printed the same as this one if its values   *)
(* are JSON for the same credentials keys, and otherwise differs only in   *)
(* the "Saved JSON to" lines.                                              *)
(***************************************************************************)
C14_NoDisclosure ==
    pc = "done" =>
        /\ SecretFree(printed)
        /\ ErrorsSecretFree
        /\ \A a \in twins :
              /\ SecretFree(a.log)
              /\ Wrote =>
                    /\ a.alike => a.log = printed
                    /\ SelectSeq(a.log, LAMBDA m : m[1] # "Saved JSON to")
                       = SelectSeq(printed, LAMBDA m : m[1] # "Saved JSON to")

\* a run whose reads gave a value, a multi-line value or an error, and that has other runs
\* to compare with
C14_Witness ==
    /\ Wrote
    /\ Len(op_calls) = 2
    /\ \E i \in DOMAIN op_calls : ReadFailed(op_calls[i])
    /\ \E i \in DOMAIN op_calls : ReadOk(op_calls[i])
    /\ Cardinality(twins) > 1
    /\ \E i \in DOMAIN printed : printed[i][1] = "WARNING: Failed to resolve"

(***************************************************************************)
(* The layout the rendering is to have                                     *)
(***************************************************************************)
\* the comment lines of the original file, trimmed as sync_env trims them
TrimmedComments == StrippedComments(ParseEnvFile(orig).comment_lines)

\* lines from..to of the new file are the entries of d, one line key=value each, in
\* ascending order of the keys
IsSection(from, to, d) ==
    /\ to - from + 1 = Cardinality(DOMAIN d)
    /\ to <= Len(new_lines)
    /\ \A k \in DOMAIN d : \E i \in from..to : new_lines[i] = k \o <<"=">> \o d[k]
    /\ \A i, j \in from..to :
          i < j => TextLess(SubSeq(new_lines[i], 1, IndexOf(new_lines[i], "=") - 1),
                            SubSeq(new_lines[j], 1, IndexOf(new_lines[j], "=") - 1))

(***************************************************************************)
(* C15  Deterministic rendering: the file a run writes is the trimmed      *)
(* comment lines of the original file; then, if some managed key has a     *)
(* value, a blank line (only when there are comment lines), the managed    *)
(* header and the managed keys as key=value in ascending order; then, if   *)
(* some unmanaged key is kept, a blank line, the unmanaged header and the  *)
(* unmanaged keys in ascending order; and nothing else.  The mapping       *)
(* {A}, the file A="x", C=y and the resolved value s give: header, A="s",  *)
(* blank line, second header, C=y.                                         *)
(***************************************************************************)
C15_Rendering ==
    Wrote =>
        LET nC == Len(TrimmedComments)
            nM == Cardinality(DOMAIN resolved_vars)
            nU == Cardinality(DOMAIN unmanaged_vars)
            sep == IF nM > 0 /\ nC > 0 THEN 1 ELSE 0
            endM == nC + (IF nM > 0 THEN sep + 1 + nM ELSE 0)
            endU == endM + (IF nU > 0 THEN 2 + nU ELSE 0)
        IN /\ target = File(JoinLines(new_lines) \o <<"NL">>)
           /\ Len(new_lines) = endU
           /\ SubSeq(new_lines, 1, nC) = TrimmedComments
           /\ nM > 0 =>
                 /\ sep = 1 => new_lines[nC + 1] = <<>>
                 /\ new_lines[nC + sep + 1] = <<HeaderManaged>>
                 /\ IsSection(nC + sep + 2, endM, resolved_vars)
           /\ nU > 0 =>
                 /\ new_lines[endM + 1] = <<>>
                 /\ new_lines[endM + 2] = HeaderUnmanaged
                 /\ IsSection(endM + 3, endU, unmanaged_vars)
           /\ ( /\ orig = File(<<"A", "=", "Q", "x", "Q", "NL", "C", "=", "y", "NL">>)
                /\ env_to_op_ref = << <<KeyA, RefA>> >>
                /\ exclusions = {}
                /\ vault[RefA].stdout = <<"s", "NL">> )
              => target.text = <<HeaderManaged, "NL", "A", "=", "Q", "s", "Q", "NL", "NL">>
                               \o HeaderUnmanaged \o <<"NL", "C", "=", "y", "NL">>

\* a run that resolved B before A and wrote comments, both managed keys and an unmanaged key
C15_Witness ==
    /\ Wrote
    /\ Len(env_to_op_ref) = 2
    /\ env_to_op_ref[1][1] = KeyB
    /\ env_to_op_ref[2][1] = KeyA
    /\ DOMAIN resolved_vars = {KeyA, KeyB}
    /\ TrimmedComments # <<>>
    /\ DOMAIN unmanaged_vars # {}

\* the run of the example: mapping {A}, file A="x" and C=y, resolved value s
C15_ExampleReached ==
    /\ Wrote
    /\ orig = File(<<"A", "=", "Q", "x", "Q", "NL", "C", "=", "y", "NL">>)
    /\ env_to_op_ref = << <<KeyA, RefA>> >>
    /\ exclusions = {}
    /\ vault[RefA].stdout = <<"s", "NL">>

(***************************************************************************)
(* Side files                                                              *)
(***************************************************************************)
HasCredentialsSuffix(key) == key # <<>> /\ key[Len(key)] = "_CREDENTIALS"

\* .creds/<key lower-cased, underscores to hyphens>.json for the keys of the mapping table
SideFileName(key) == IF key = KeyB THEN <<"b", "-credentials", ".json">> ELSE <<>>
SideFilePath(key) == <<".creds", "/">> \o SideFileName(key)

\* the paths under .creds/ that this run has written
SideFilesWritten == {path \in touched : Head(path) = ".creds"}

(***************************************************************************)
(* C16  Side-file materialization: when the run has replaced the file, a   *)
(* synced key with the credentials suffix whose value was resolved has had *)
(* its side file written if and only if the value parses as JSON; then the *)
(* side file holds the value and the env file holds the quoted relative    *)
(* path .creds/<key in lower case with hyphens>.json, not the value;       *)
(* otherwise the env file holds the quoted value.  A key without the       *)
(* suffix is always written with its quoted value, and no other side file  *)
(* is written.                                                             *)
(***************************************************************************)
C16_SideFiles ==
    Wrote =>
        /\ \A K \in OdKeys(env_to_op_ref) :
              LET ref == OdGet(env_to_op_ref, K)
                  value == RStripNL(vault[ref].stdout)
              IN IF ReadOk(ref)
                 THEN IF HasCredentialsSuffix(K) /\ K # GoogleApplicationCredentials
                      THEN /\ SideFilePath(K) \in touched <=> IsJson(value)
                           /\ IsJson(value) =>
                                 /\ SideFileName(K) \in DOMAIN creds
                                 /\ creds[SideFileName(K)] = value
                                 /\ WroteLine(K, <<"Q">> \o SideFilePath(K) \o <<"Q">>)
                                 /\ ~WroteLine(K, <<"Q">> \o value \o <<"Q">>)
                           /\ ~IsJson(value) => WroteLine(K, <<"Q">> \o value \o <<"Q">>)
                      ELSE WroteLine(K, <<"Q">> \o value \o <<"Q">>)
                 ELSE SideFilePath(K) \notin touched
        /\ SideFilesWritten \subseteq
              {SideFilePath(K) : K \in {k \in OdKeys(env_to_op_ref) : HasCredentialsSuffix(k)}}

\* a run that resolved B_CREDENTIALS to a JSON value and A to a plain value
C16_Witness ==
    /\ Wrote
    /\ {KeyA, KeyB} \subseteq OdKeys(env_to_op_ref)
    /\ ReadOk(RefB) /\ IsJson(RStripNL(vault[RefB].stdout))
    /\ ReadOk(RefA)
    /\ SideFilePath(KeyB) \in touched
    /\ <<"b", "-credentials", ".json">> \in DOMAIN creds

(***************************************************************************)
(* C17  Environment scoping, as claimed: once the table has been read, an  *)
(* environment-scoped record whose reference is in the managed mapping has *)
(* an environment key equal to the active environment but for case; and    *)
(* when the table holds a non-scoped record and a matching scoped record   *)
(* for one variable, the mapping holds the scoped record's reference,      *)
(* whatever the order of the records.                                      *)
(***************************************************************************)
C17_EnvironmentScoping ==
    (TableRead /\ TheTable.reachable) =>
        /\ \A r \in Range(TableRecords) :
              ( /\ r.environment_based
                /\ r.env_var \in OdKeys(ManagedMapping)
                /\ OdGet(ManagedMapping, r.env_var) = r.op_reference )
              => Lower(r.environment_key) = CurrentEnv
        /\ \A r, q \in Range(TableRecords) :
              ( /\ r.environment_based
                /\ Lower(r.environment_key) = CurrentEnv
                /\ ~q.environment_based
                /\ q.env_var = r.env_var )
              => /\ r.env_var \in OdKeys(ManagedMapping)
                 /\ OdGet(ManagedMapping, r.env_var) = r.op_reference

(***************************************************************************)
(* C18  Inclusion list that matches nothing, as claimed: when main has     *)
(* returned from a run in which an inclusion list was active and no mapped *)
(* variable was in it, the run has printed the warning and the names of    *)
(* the mapped variables, sync_env has returned without raising and without *)
(* writing the target file, and main has returned 0.                       *)
(***************************************************************************)
NothingIncluded ==
    Said("WARNING: No environment variable mappings match the inclusion list", <<>>)

C18_NothingIncluded ==
    (pc = "done" /\ NothingIncluded) =>
        /\ ~inclusions.is_none
        /\ ManagedMapping # <<>>
        /\ OdKeys(ManagedMapping) \cap inclusions.names = {}
        /\ written = 0
        /\ target = orig
        /\ ~RaisedInSync
        /\ Said("Sync completed successfully", <<>>)
        /\ exit_code = 0

(***************************************************************************)
(* The assignments of a file, line by line                                 *)
(***************************************************************************)
\* line is one that parse_env_file reads as key=value
IsAssignment(line) ==
    /\ Strip(line) # <<>>
    /\ Head(Strip(line)) \notin HashTokens
    /\ IndexOf(line, "=") # 0
    /\ Strip(SubSeq(line, 1, IndexOf(line, "=") - 1)) # <<>>

AssignedKey(line) == Strip(SubSeq(line, 1, IndexOf(line, "=") - 1))

(***************************************************************************)
(* C19  No duplicate and no invented keys, as claimed: in the file a run   *)
(* has written, no two key=value lines assign the same variable name, no   *)
(* key is in both the managed and the unmanaged section, and every name    *)
(* assigned is a key of the managed mapping or of the original file.       *)
(***************************************************************************)
C19_KeysOnceAndKnown ==
    Wrote =>
        LET lines == LinesOf(target)
        IN /\ \A i, j \in DOMAIN lines :
                 (i # j /\ IsAssignment(lines[i]) /\ IsAssignment(lines[j]))
                 => AssignedKey(lines[i]) # AssignedKey(lines[j])
           /\ DOMAIN resolved_vars \cap DOMAIN unmanaged_vars = {}
           /\ \A i \in DOMAIN lines :
                 IsAssignment(lines[i])
                 => AssignedKey(lines[i]) \in OdKeys(ManagedMapping) \cup DOMAIN OrigVars

====
